---------------------------- MODULE Spec2Model ----------------------------
(***************************************************************************)
(* A model of ShapeDetector (src/src/main.ts): the detection pipeline of   *)
(* detectShapes (grayscale, border polarity, threshold, 8-connected flood  *)
(* fill, bounding boxes, RDP simplification, classification, confidence).  *)
(*                                                                         *)
(* Numbers.  JavaScript doubles are modelled by exact rationals            *)
(* [num, den]; den = 0 stands for NaN (0/0, or arithmetic on undefined).   *)
(* Every comparison of the code is decided on the exact values, but for    *)
(* the circularity test of classifyShape, whose radii (square roots) are   *)
(* taken in sixteenths of a pixel, rounded down.                           *)
(***************************************************************************)
EXTENDS Integers, Sequences, FiniteSets, TLC

VARIABLES
  pending,                    \* the images the caller has still to hand over
  results,                    \* the DetectionResults returned so far, in order
  width, height, data,        \* the ImageData handed to detectShapes
  gray,                       \* Step 1: Uint8ClampedArray(width * height)
  bgLevel, avgLevel, darkShapes,  \* Step 2
  threshold, binary,          \* Step 3
  visited, scan, stack, blob, \* Step 4: flood fill; scan is idx(x, y) of the loops
  blobs,                      \* history: every blob the flood fill completed
  contours,                   \* Step 4: the blobs that passed the noise filter
  shapes,                     \* Step 5
  pc,                         \* position in detectShapes
  points, tolerance, approx,  \* a call of rdpSimplify and its return value
  shapeType, contourLen, confidence  \* a call of computeConfidence

input == << width, height, data >>
steps123 == << gray, bgLevel, avgLevel, darkShapes, threshold, binary >>
fill == << visited, scan, stack, blob, blobs, contours >>
calls == << points, tolerance, approx, shapeType, contourLen, confidence >>
vars == << pending, results, input, steps123, fill, shapes, pc, calls >>

None == "none"

-----------------------------------------------------------------------------
(* Bounds of the checked instances *)

\* the grid of the images of black figures on white paper
GridW == 9
GridH == 7
\* uniform images: width and height from 1 to UniformSide
UniformSide == 5
\* a grey block on grey paper: the side of the (square) image
BlockGrid == 7
\* squares on white paper: the greatest side of a square and of an image
SquareSide == 6
SquareGrid == 9
\* malformed inputs: width and height from 0 to InvalidSide
InvalidSide == 5
\* collinear sequences: at most MaxLinePoints points, each 0 to MaxStep steps
\* along the line
MaxLinePoints == 4
MaxStep == 3
\* computeConfidence: contours of 1 to MaxContourLen points
MaxContourLen == 700

-----------------------------------------------------------------------------
(* Program constants *)

NoiseMax == 20
RdpTolerance == 3
SizeFull == 500

-----------------------------------------------------------------------------
(* Numbers *)

Rat(n, d) == [num |-> n, den |-> d]
NaN == Rat(0, 0)
IsNaN(a) == a.den = 0
\* a < b on doubles: false when either side is NaN
Lt(a, b) == /\ ~IsNaN(a) /\ ~IsNaN(b)
            /\ a.num * b.den < b.num * a.den
Min(a, b) == IF a < b THEN a ELSE b
Max(a, b) == IF a > b THEN a ELSE b
Abs(a) == IF a < 0 THEN -a ELSE a

RECURSIVE SumRange(_, _, _)
\* F(lo) + F(lo+1) + ... + F(hi)
SumRange(F(_), lo, hi) == IF lo > hi THEN 0 ELSE F(lo) + SumRange(F, lo + 1, hi)

RECURSIVE SqrtSearch(_, _, _)
SqrtSearch(q, lo, hi) ==
  IF lo >= hi THEN lo
  ELSE LET mid == (lo + hi + 1) \div 2
       IN IF mid * mid <= q THEN SqrtSearch(q, mid, hi)
          ELSE SqrtSearch(q, lo, mid - 1)
\* floor(sqrt(q)) for 0 <= q < 2^30
ISqrt(q) == SqrtSearch(q, 0, 32767)

-----------------------------------------------------------------------------
(* Step 1: grayscale *)

Undefined == -1
\* data[k]: undefined past the end of the buffer
Byte(d, k) == IF k \in DOMAIN d THEN d[k] ELSE Undefined

\* Math.round(0.299 r + 0.587 g + 0.114 b) stored in a Uint8ClampedArray:
\* round-half-up of the weighted sum; NaN (an undefined channel) is stored as 0
Luminance(r, g, b) ==
  IF r = Undefined \/ g = Undefined \/ b = Undefined THEN 0
  ELSE Min(255, (299 * r + 587 * g + 114 * b + 500) \div 1000)

Grayscale(d, w, h) ==
  [i \in 0 .. (w * h - 1) |->
      Luminance(Byte(d, i * 4), Byte(d, i * 4 + 1), Byte(d, i * 4 + 2))]

-----------------------------------------------------------------------------
(* Step 2: background brightness from the border, polarity *)

\* the indices the two border loops read, in order
BorderReads(w, h) ==
  [k \in 1 .. (2 * w) |->
      IF k % 2 = 1 THEN (k - 1) \div 2 ELSE (h - 1) * w + (k - 2) \div 2]
  \o
  [k \in 1 .. (2 * h) |->
      IF k % 2 = 1 THEN ((k - 1) \div 2) * w
      ELSE ((k - 2) \div 2) * w + (w - 1)]

BgLevel(g, w, h) ==
  LET reads == BorderReads(w, h)
      borderCount == 2 * w + 2 * h
  IN IF \E k \in 1 .. Len(reads) : reads[k] \notin DOMAIN g
     THEN NaN        \* a read of undefined makes borderSum NaN
     ELSE Rat(SumRange(LAMBDA k : g[reads[k]], 1, Len(reads)), borderCount)

\* gray.reduce((a, b) => a + b, 0) / gray.length; 0/0 is NaN
AvgLevel(g) ==
  LET n == Cardinality(DOMAIN g)
  IN Rat(SumRange(LAMBDA i : g[i], 0, n - 1), n)

DarkShapes(avg, bg) == Lt(avg, bg)

-----------------------------------------------------------------------------
(* Step 3: threshold and binary mask *)

\* Faulty variant: the two factors exchanged
ThresholdSwapped(dark, bg) ==
  IF dark THEN Rat(bg.num * 11, bg.den * 10) ELSE Rat(bg.num * 9, bg.den * 10)

\* darkShapes ? bgLevel * 0.9 : bgLevel * 1.1
Threshold(dark, bg) ==
  IF dark THEN Rat(bg.num * 9, bg.den * 10) ELSE Rat(bg.num * 11, bg.den * 10)

Binarize(g, dark, thr) ==
  [i \in DOMAIN g |->
      IF dark THEN (IF Lt(Rat(g[i], 1), thr) THEN 1 ELSE 0)
      ELSE (IF Lt(thr, Rat(g[i], 1)) THEN 1 ELSE 0)]

-----------------------------------------------------------------------------
(* Step 4: connected components by flood fill *)

Point(px, py) == [x |-> px, y |-> py]

\* Faulty variant: the four axis neighbours only
dirsAxisOnly == << <<1, 0>>, <<-1, 0>>, <<0, 1>>, <<0, -1>> >>

dirs == << <<1, 0>>, <<-1, 0>>, <<0, 1>>, <<0, -1>>,
           <<1, 1>>, <<-1, -1>>, <<1, -1>>, <<-1, 1>> >>

inBounds(px, py, w, h) == px >= 0 /\ py >= 0 /\ px < w /\ py < h
idx(px, py, w) == py * w + px

RECURSIVE PushNeighbours(_, _, _, _, _, _, _)
\* for (const [dx, dy] of dirs) ...: from direction k on
PushNeighbours(bin, w, h, p, k, stk, vis) ==
  IF k > Len(dirs) THEN [stack |-> stk, visited |-> vis]
  ELSE LET nx == p.x + dirs[k][1]
           ny == p.y + dirs[k][2]
       IN IF ~inBounds(nx, ny, w, h)
          THEN PushNeighbours(bin, w, h, p, k + 1, stk, vis)
          ELSE LET ni == idx(nx, ny, w)
               IN IF vis[ni] = 0 /\ bin[ni] = 1
                  THEN PushNeighbours(bin, w, h, p, k + 1,
                                      Append(stk, Point(nx, ny)),
                                      [vis EXCEPT ![ni] = 1])
                  ELSE PushNeighbours(bin, w, h, p, k + 1, stk, vis)

\* Faulty variant: unshift in place of push
KeepBlobFront(cs, b) == IF Len(b) > NoiseMax THEN << b >> \o cs ELSE cs

\* if (blob.length > 20) contours.push(blob)
KeepBlob(cs, b) == IF Len(b) > NoiseMax THEN Append(cs, b) ELSE cs

\* The pixels at which the loops over y and x, continuing from pixel `from`,
\* find binary[id] === 1 && !visited[id]
Seeds(bin, vis, from) ==
  { id \in DOMAIN bin : id >= from /\ bin[id] = 1 /\ vis[id] = 0 }
\* the first of them in the order of the loops (row-major: y outer, x inner)
NextSeed(bin, vis, from) ==
  CHOOSE id \in Seeds(bin, vis, from) :
     \A other \in Seeds(bin, vis, from) : id <= other

-----------------------------------------------------------------------------
(* Step 5: bounding box, RDP simplification, classification, confidence *)

RECURSIVE MinOf(_, _, _)
\* Math.min(...) of F over the points of a (non-empty) contour, from index k on
MinOf(F(_), c, k) ==
  IF k = Len(c) THEN F(c[k]) ELSE Min(F(c[k]), MinOf(F, c, k + 1))
RECURSIVE MaxOf(_, _, _)
MaxOf(F(_), c, k) ==
  IF k = Len(c) THEN F(c[k]) ELSE Max(F(c[k]), MaxOf(F, c, k + 1))

GetX(p) == p.x
GetY(p) == p.y

\* minX, maxX, minY, maxY of a contour
Extent(contour) ==
  [minX |-> MinOf(GetX, contour, 1), maxX |-> MaxOf(GetX, contour, 1),
   minY |-> MinOf(GetY, contour, 1), maxY |-> MaxOf(GetY, contour, 1)]

\* Faulty variant: the x extent taken from ys
BoundingBoxFromYs(contour) ==
  LET e == Extent(contour)
  IN [x |-> e.minY, y |-> e.minY,
      width |-> e.maxY - e.minY, height |-> e.maxY - e.minY]

\* boundingBox: { x: minX, y: minY, width: maxX - minX, height: maxY - minY }
BoundingBox(contour) ==
  LET e == Extent(contour)
  IN [x |-> e.minX, y |-> e.minY,
      width |-> e.maxX - e.minX, height |-> e.maxY - e.minY]

\* A distance num / sqrt(den2); den2 = 0 is the degenerate segment, distance 0
Dist(n, d2) == [num |-> n, den2 |-> d2]
DistSq(d) == IF d.den2 = 0 THEN Rat(0, 1) ELSE Rat(d.num * d.num, d.den2)
\* d1 > d2 on non-negative distances, decided on the squares
DistGt(d1, d2) == Lt(DistSq(d2), DistSq(d1))
\* d > tolerance, tolerance a positive rational
DistGtTol(d, tol) == Lt(Rat(tol.num * tol.num, tol.den * tol.den), DistSq(d))

\* Faulty variant: the distance to the point a when a = b
perpendicularDistanceToPoint(p, a, b) ==
  LET num == Abs((b.y - a.y) * p.x - (b.x - a.x) * p.y + b.x * a.y - b.y * a.x)
      den2 == (b.x - a.x) * (b.x - a.x) + (b.y - a.y) * (b.y - a.y)
      pa2 == (p.x - a.x) * (p.x - a.x) + (p.y - a.y) * (p.y - a.y)
  IN IF den2 = 0 THEN Dist(pa2, pa2) ELSE Dist(num, den2)

\* |(b.y - a.y) p.x - (b.x - a.x) p.y + b.x a.y - b.y a.x| / hypot(b - a),
\* and 0 when a = b
perpendicularDistance(p, a, b) ==
  LET num == Abs((b.y - a.y) * p.x - (b.x - a.x) * p.y + b.x * a.y - b.y * a.x)
      den2 == (b.x - a.x) * (b.x - a.x) + (b.y - a.y) * (b.y - a.y)
  IN IF den2 = 0 THEN Dist(0, 0) ELSE Dist(num, den2)

RECURSIVE Farthest(_, _, _, _)
\* the loop of rdpSimplify from (0-based) i on: the first point of strictly
\* greatest distance to the segment first-last; index -1 when all are 0
Farthest(pts, i, index, maxDist) ==
  IF i >= Len(pts) - 1 THEN [index |-> index, maxDist |-> maxDist]
  ELSE LET d == perpendicularDistance(pts[i + 1], pts[1], pts[Len(pts)])
       IN IF DistGt(d, maxDist) THEN Farthest(pts, i + 1, i, d)
          ELSE Farthest(pts, i + 1, index, maxDist)

RECURSIVE rdpSimplify(_, _)
RECURSIVE rdpSimplifyKeepSplit(_, _)
\* Faulty variant: left.concat(right): the split point is kept twice
rdpSimplifyKeepSplit(pts, tol) ==
  IF Len(pts) < 3 THEN pts
  ELSE LET far == Farthest(pts, 1, -1, Dist(0, 0))
       IN IF DistGtTol(far.maxDist, tol) /\ far.index # -1
          THEN rdpSimplifyKeepSplit(SubSeq(pts, 1, far.index + 1), tol)
               \o rdpSimplifyKeepSplit(SubSeq(pts, far.index + 1, Len(pts)), tol)
          ELSE << pts[1], pts[Len(pts)] >>

rdpSimplify(pts, tol) ==
  IF Len(pts) < 3 THEN pts
  ELSE LET first == pts[1]
           last == pts[Len(pts)]
           far == Farthest(pts, 1, -1, Dist(0, 0))
       IN IF DistGtTol(far.maxDist, tol) /\ far.index # -1
          THEN LET left == rdpSimplify(SubSeq(pts, 1, far.index + 1), tol)
                   right == rdpSimplify(SubSeq(pts, far.index + 1, Len(pts)), tol)
               IN SubSeq(left, 1, Len(left) - 1) \o right
          ELSE << first, last >>

\* computeCenter, as the pair of sums over the common denominator points.length
computeCenter(pts) ==
  [sx |-> SumRange(LAMBDA k : pts[k].x, 1, Len(pts)),
   sy |-> SumRange(LAMBDA k : pts[k].y, 1, Len(pts)),
   n |-> Len(pts)]

\* Math.hypot(p.x - center.x, p.y - center.y) in sixteenths of a pixel,
\* rounded down
Radius16(p, c) ==
  LET dx == c.n * p.x - c.sx
      dy == c.n * p.y - c.sy
  IN ISqrt(((dx * dx + dy * dy) * 256) \div (c.n * c.n))

\* cv = sqrt(variance) / mean < 0.15, i.e. 400 variance < 9 mean^2, on the
\* fixed-point radii: 400 (n S2 - S1^2) < 9 S1^2
Circular(contour) ==
  LET c == computeCenter(contour)
      n == Len(contour)
      r == [k \in 1 .. n |-> Radius16(contour[k], c)]
      s1 == SumRange(LAMBDA k : r[k], 1, n)
      s2 == SumRange(LAMBDA k : r[k] * r[k], 1, n)
      lhs == n * s2 - s1 * s1
      rhs == s1 * s1
  IN s1 > 0 /\ lhs <= 9 * (rhs \div 400) + (9 * (rhs % 400) - 1) \div 400

classifyShape(appr, contour, w, h) ==
  LET v == Len(appr)
  IN IF v = 3 THEN "triangle"
     ELSE IF v = 4 THEN "rectangle"
     ELSE IF v = 5 THEN "pentagon"
     ELSE IF Circular(contour) THEN "circle"
     ELSE "star"

ShapeTypes == {"circle", "triangle", "rectangle", "pentagon", "star"}

\* base, in hundredths
BaseScore(type) ==
  CASE type = "triangle" -> 90
    [] type = "rectangle" -> 90
    [] type = "pentagon" -> 85
    [] type = "circle" -> 95
    [] type = "star" -> 80
    [] OTHER -> 80

RatMin1(a) == IF Lt(Rat(1, 1), a) THEN Rat(1, 1) ELSE a

\* Faulty variant: neither Math.min applied
computeConfidenceUnclamped(type, appr, contour) ==
  LET sizeFactor == Rat(Len(contour), SizeFull)
      scale == Rat(4 * sizeFactor.den + sizeFactor.num, 5 * sizeFactor.den)
  IN Rat(BaseScore(type) * scale.num, 100 * scale.den)

\* Math.min(1, base * (0.8 + 0.2 * Math.min(1, contour.length / 500)))
computeConfidence(type, appr, contour) ==
  LET sizeFactor == RatMin1(Rat(Len(contour), SizeFull))
      \* 0.8 + 0.2 * sizeFactor = (4 den + num) / (5 den)
      scale == Rat(4 * sizeFactor.den + sizeFactor.num, 5 * sizeFactor.den)
  IN RatMin1(Rat(BaseScore(type) * scale.num, 100 * scale.den))

\* the body of the loop over contours
AnalyzeContour(contour) ==
  LET e == Extent(contour)
      box == BoundingBox(contour)
      appr == rdpSimplify(contour, Rat(RdpTolerance, 1))
      type == classifyShape(appr, contour, box.width, box.height)
  IN [type |-> type,
      confidence |-> computeConfidence(type, appr, contour),
      boundingBox |-> box,
      center |-> [x |-> Rat(e.minX + e.maxX, 2), y |-> Rat(e.minY + e.maxY, 2)],
      area |-> box.width * box.height]

AnalyzeContours(cs) == [k \in 1 .. Len(cs) |-> AnalyzeContour(cs[k])]

-----------------------------------------------------------------------------
(* detectShapes: the caller's invocation, then one action per step of the   *)
(* method; Step 4 takes one action per blob started, per pixel popped and   *)
(* per blob completed                                                       *)

\* the caller (processImage, the batch evaluation) hands the next image over;
\* every local of the call is fresh
Invoke ==
  /\ pc = "idle" /\ pending # << >>
  /\ width' = Head(pending).width
  /\ height' = Head(pending).height
  /\ data' = Head(pending).data
  /\ pending' = Tail(pending)
  /\ gray' = << >> /\ bgLevel' = NaN /\ avgLevel' = NaN /\ darkShapes' = FALSE
  /\ threshold' = NaN /\ binary' = << >>
  /\ visited' = << >> /\ scan' = 0 /\ stack' = << >> /\ blob' = << >>
  /\ blobs' = << >> /\ contours' = << >> /\ shapes' = << >>
  /\ pc' = "start"
  /\ UNCHANGED << results, calls >>

\* Step 1: convert to grayscale
ConvertGrayscale ==
  /\ pc = "start"
  /\ gray' = Grayscale(data, width, height)
  /\ pc' = "background"
  /\ UNCHANGED << pending, results, input, bgLevel, avgLevel, darkShapes,
                  threshold, binary, fill, shapes, calls >>

\* Step 2: background brightness and polarity
DetectBackground ==
  /\ pc = "background"
  /\ bgLevel' = BgLevel(gray, width, height)
  /\ avgLevel' = AvgLevel(gray)
  /\ darkShapes' = DarkShapes(avgLevel', bgLevel')
  /\ pc' = "threshold"
  /\ UNCHANGED << pending, results, input, gray, threshold, binary, fill,
                  shapes, calls >>

\* Step 3: adaptive thresholding; the buffers of Step 4 are allocated
AdaptiveThreshold ==
  /\ pc = "threshold"
  /\ threshold' = Threshold(darkShapes, bgLevel)
  /\ binary' = Binarize(gray, darkShapes, threshold')
  /\ visited' = [i \in 0 .. (width * height - 1) |-> 0]
  /\ scan' = 0
  /\ pc' = "scan"
  /\ UNCHANGED << pending, results, input, gray, bgLevel, avgLevel, darkShapes,
                  stack, blob, blobs, contours, shapes, calls >>

\* Step 4, the loops over y and x reach an unvisited foreground pixel:
\* stack = [{x, y}], blob = [], visited[id] = 1
SeedBlob ==
  /\ pc = "scan"
  /\ Seeds(binary, visited, scan) # {}
  /\ LET id == NextSeed(binary, visited, scan)
     IN /\ scan' = id
        /\ stack' = << Point(id % width, id \div width) >>
        /\ visited' = [visited EXCEPT ![id] = 1]
  /\ blob' = << >>
  /\ pc' = "fill"
  /\ UNCHANGED << pending, results, input, steps123, blobs, contours, shapes,
                  calls >>

\* Step 4, one iteration of while (stack.length)
PopPixel ==
  /\ pc = "fill" /\ stack # << >>
  /\ LET p == stack[Len(stack)]
         r == PushNeighbours(binary, width, height, p, 1,
                             SubSeq(stack, 1, Len(stack) - 1), visited)
     IN /\ blob' = Append(blob, p)
        /\ stack' = r.stack
        /\ visited' = r.visited
  /\ UNCHANGED << pending, results, input, steps123, scan, blobs, contours,
                  shapes, pc, calls >>

\* Step 4, the stack is empty: the noise filter, and the loops go on
CloseBlob ==
  /\ pc = "fill" /\ stack = << >>
  /\ blobs' = Append(blobs, blob)
  /\ contours' = KeepBlob(contours, blob)
  /\ scan' = scan + 1
  /\ pc' = "scan"
  /\ UNCHANGED << pending, results, input, steps123, visited, stack, blob,
                  shapes, calls >>

\* Step 4, the loops over y and x end
ScanDone ==
  /\ pc = "scan"
  /\ Seeds(binary, visited, scan) = {}
  /\ pc' = "analyze"
  /\ UNCHANGED << pending, results, input, steps123, fill, shapes, calls >>

\* Step 5: analyze contours and classify shapes
AnalyzeAndClassify ==
  /\ pc = "analyze"
  /\ shapes' = AnalyzeContours(contours)
  /\ pc' = "return"
  /\ UNCHANGED << pending, results, input, steps123, fill, calls >>

\* return { shapes, processingTime, imageWidth, imageHeight }
ReturnResult ==
  /\ pc = "return"
  /\ results' = Append(results, [shapes |-> shapes, imageWidth |-> width,
                                 imageHeight |-> height])
  /\ pc' = "idle"
  /\ UNCHANGED << pending, input, steps123, fill, shapes, calls >>

Next ==
  \/ Invoke
  \/ ConvertGrayscale
  \/ DetectBackground
  \/ AdaptiveThreshold
  \/ SeedBlob
  \/ PopPixel
  \/ CloseBlob
  \/ ScanDone
  \/ AnalyzeAndClassify
  \/ ReturnResult

-----------------------------------------------------------------------------
(* Input images *)

Black == << 0, 0, 0 >>
White == << 255, 255, 255 >>
Grey(v) == << v, v, v >>

\* The RGBA buffer of a w x h image: pixels of the set fg (pixel indices) have
\* colour ink, the others colour paper; alpha is 255
Render(fg, w, h, ink, paper) ==
  [k \in 0 .. (4 * w * h - 1) |->
      IF k % 4 = 3 THEN 255
      ELSE IF (k \div 4) \in fg THEN ink[(k % 4) + 1] ELSE paper[(k % 4) + 1]]

Image(d, w, h) == [data |-> d, width |-> w, height |-> h]

\* the pixel indices of the filled rectangle [x0, x0+rw) x [y0, y0+rh)
RectPixels(x0, y0, rw, rh, w) ==
  { idx(px, py, w) : px \in x0 .. (x0 + rw - 1), py \in y0 .. (y0 + rh - 1) }

\* Filled rectangles of the grid whose area is at the noise limit or one above
Rects(w, h) ==
  UNION { { RectPixels(x0, y0, d[1], d[2], w) :
              x0 \in 0 .. (w - d[1]), y0 \in 0 .. (h - d[2]) } :
          d \in { e \in (1 .. w) \X (1 .. h) :
                    e[1] * e[2] \in { NoiseMax, NoiseMax + 1 } } }

\* the rectangles of Rects whose top-left corner is at most one pixel off
\* the top-left corner of the grid
Anchored(w, h) == { a \in Rects(w, h) : \E id \in a : id % w <= 1 /\ id \div w <= 1 }

\* An anchored rectangle joined with any rectangle (the same one, one that
\* overlaps it, touches it by a side or by a corner, or lies apart), and an
\* anchored rectangle with one pixel of the grid flipped
Figures(w, h) ==
  { a \cup b : a \in Anchored(w, h), b \in Rects(w, h) }
  \cup
  { (a \ {p}) \cup ({p} \ a) : a \in Anchored(w, h), p \in 0 .. (w * h - 1) }

IdleCalls ==
  /\ points = << >> /\ tolerance = NaN /\ approx = << >>
  /\ shapeType = None /\ contourLen = 0 /\ confidence = NaN

\* The caller holds the images imgs; no call has been made
IdlePipeline(imgs) ==
  /\ pending = imgs /\ results = << >>
  /\ width = 0 /\ height = 0 /\ data = << >>
  /\ gray = << >> /\ bgLevel = NaN /\ avgLevel = NaN /\ darkShapes = FALSE
  /\ threshold = NaN /\ binary = << >>
  /\ visited = << >> /\ scan = 0 /\ stack = << >> /\ blob = << >>
  /\ blobs = << >> /\ contours = << >> /\ shapes = << >>
  /\ pc = "idle"

Idle(imgs) == IdlePipeline(imgs) /\ IdleCalls

\* Black figures on white paper
Init ==
  \E fg \in Figures(GridW, GridH) :
     Idle(<< Image(Render(fg, GridW, GridH, Black, White), GridW, GridH) >>)

Spec == Init /\ [][Next]_vars

-----------------------------------------------------------------------------
(* Grey images, each followed by its luminance inversion *)

\* every channel c of every pixel replaced by 255 - c, alpha kept
Invert(img) ==
  [img EXCEPT !.data = [k \in DOMAIN img.data |->
                          IF k % 4 = 3 THEN img.data[k] ELSE 255 - img.data[k]]]

GreyLevels == { 0, 15, 60, 128, 195, 240, 255 }

Uniform(w, h, g) == Image(Render({}, w, h, Black, Grey(g)), w, h)

\* images of one grey value: every size up to UniformSide x UniformSide with
\* the levels of GreyLevels, and the largest size with every level
UniformImages ==
  { Uniform(w, h, g) :
      w \in 1 .. UniformSide, h \in 1 .. UniformSide, g \in GreyLevels }
  \cup
  { Uniform(UniformSide, UniformSide, g) : g \in 0 .. 255 }

\* a filled block one pixel inside the border of a square image, of one grey
\* level on paper of another
BlockImages ==
  { Image(Render(RectPixels(1, 1, BlockGrid - 2, BlockGrid - 2, BlockGrid),
                 BlockGrid, BlockGrid, Grey(lv[1]), Grey(lv[2])),
          BlockGrid, BlockGrid) :
      lv \in { l \in GreyLevels \X GreyLevels : l[1] # l[2] } }

InitGrey ==
  \E img \in UniformImages \cup BlockImages : Idle(<< img, Invert(img) >>)

SpecGrey == InitGrey /\ [][Next]_vars

-----------------------------------------------------------------------------
(* One solid axis-aligned square on white paper *)

Blue == << 0, 0, 255 >>

\* squares of more than NoiseMax pixels that do not touch the border and cover
\* less than half of the image
SquareImages ==
  { Image(Render(RectPixels(q[3], q[4], q[5], q[5], q[1]), q[1], q[2],
                 ink, White), q[1], q[2]) :
      q \in { r \in (1 .. SquareGrid) \X (1 .. SquareGrid) \X (1 .. SquareGrid)
                     \X (1 .. SquareGrid) \X (1 .. SquareSide) :
                /\ r[5] * r[5] > NoiseMax
                /\ r[3] + r[5] <= r[1] - 1
                /\ r[4] + r[5] <= r[2] - 1
                /\ 2 * r[5] * r[5] < r[1] * r[2] },
      ink \in { Black, Blue } }

InitSquare == \E img \in SquareImages : Idle(<< img >>)

SpecSquare == InitSquare /\ [][Next]_vars

-----------------------------------------------------------------------------
(* Inputs that violate the preconditions of detect *)

Malformed(w, h, len) == w = 0 \/ h = 0 \/ len # w * h * 4

\* buffers of white bytes of every length up to one pixel past width*height*4
MalformedImages ==
  { Image([k \in 0 .. (q[3] - 1) |-> 255], q[1], q[2]) :
      q \in { r \in (0 .. InvalidSide) \X (0 .. InvalidSide)
                     \X (0 .. (4 * InvalidSide * InvalidSide + 4)) :
                /\ r[3] <= 4 * r[1] * r[2] + 4
                /\ Malformed(r[1], r[2], r[3]) } }

InitInvalid == \E img \in MalformedImages : Idle(<< img >>)

SpecInvalid == InitInvalid /\ [][Next]_vars

-----------------------------------------------------------------------------
(* rdpSimplify on collinear points *)

Directions == { << 1, 0 >>, << 0, 1 >>, << 1, 1 >>, << 1, -1 >>, << -2, 1 >> }
Tolerances == { Rat(1, 100), Rat(1, 1), Rat(3, 1) }

\* the sequences of 2 to MaxLinePoints points o + t d, t in 0 .. MaxStep, in
\* any order and with repetitions
LineSequences ==
  UNION { { [k \in 1 .. n |-> Point(1 + t[k] * d[1], 2 + t[k] * d[2])] :
              t \in [1 .. n -> 0 .. MaxStep], d \in Directions } :
          n \in 2 .. MaxLinePoints }

InitRdp ==
  /\ IdlePipeline(<< >>)
  /\ points \in LineSequences /\ tolerance \in Tolerances /\ approx = << >>
  /\ shapeType = None /\ contourLen = 0 /\ confidence = NaN

CallRdpSimplify ==
  /\ points # << >> /\ approx = << >>
  /\ approx' = rdpSimplify(points, tolerance)
  /\ UNCHANGED << pending, results, input, steps123, fill, shapes, pc,
                  points, tolerance, shapeType, contourLen, confidence >>

NextRdp == CallRdpSimplify

SpecRdp == InitRdp /\ [][NextRdp]_vars

-----------------------------------------------------------------------------
(* computeConfidence on every shape type and blob size *)

InitConfidence ==
  /\ IdlePipeline(<< >>)
  /\ points = << >> /\ tolerance = NaN /\ approx = << >>
  /\ shapeType \in ShapeTypes /\ contourLen \in 1 .. MaxContourLen
  /\ confidence = NaN

CallComputeConfidence ==
  /\ shapeType # None /\ IsNaN(confidence)
  /\ confidence' = computeConfidence(shapeType, << >>,
                                     [k \in 1 .. contourLen |-> Point(0, 0)])
  /\ UNCHANGED << pending, results, input, steps123, fill, shapes, pc,
                  points, tolerance, approx, shapeType, contourLen >>

NextConfidence == CallComputeConfidence

SpecConfidence == InitConfidence /\ [][NextConfidence]_vars

-----------------------------------------------------------------------------
(* What the claims speak of *)

\* a call has returned and its locals are still in place
Returned == pc = "idle" /\ results # << >>
LastResult == results[Len(results)]

Range(f) == { f[k] : k \in DOMAIN f }
PixelOf(p) == idx(p.x, p.y, width)
PixelSet(b) == { PixelOf(b[k]) : k \in 1 .. Len(b) }
Foreground == { id \in DOMAIN binary : binary[id] = 1 }

\* 8-neighbours: distinct pixels whose coordinates differ by at most 1
Adjacent(i, j) ==
  /\ i # j
  /\ Abs((i % width) - (j % width)) <= 1
  /\ Abs((i \div width) - (j \div width)) <= 1

RECURSIVE Grow(_, _)
\* the foreground pixels joined to the set reached by 8-neighbour paths
Grow(reached, frontier) ==
  LET new == { j \in Foreground \ reached : \E i \in frontier : Adjacent(i, j) }
  IN IF new = {} THEN reached ELSE Grow(reached \cup new, new)
\* the maximal 8-connected foreground component of pixel id
Component(id) == Grow({id}, {id})
RECURSIVE Partition(_)
\* the components of the pixels of rest, one seed pixel at a time
Partition(rest) ==
  IF rest = {} THEN {}
  ELSE LET c == Component(CHOOSE id \in rest : TRUE)
       IN {c} \cup Partition(rest \ c)
\* the maximal 8-connected components of the foreground
Components == Partition(Foreground)
Big(comps) == { c \in comps : Cardinality(c) > NoiseMax }

\* the bounding box of a set of pixels, from the definition
BoxOfPixels(c) ==
  LET xs == { id % width : id \in c }
      ys == { id \div width : id \in c }
      lo(S) == CHOOSE v \in S : \A u \in S : v <= u
      hi(S) == CHOOSE v \in S : \A u \in S : v >= u
  IN [x |-> lo(xs), y |-> lo(ys),
      width |-> hi(xs) - lo(xs), height |-> hi(ys) - lo(ys)]

\* the first pixel of a blob in row-major order (smallest y, then smallest x)
FirstPixel(b) == CHOOSE id \in PixelSet(b) : \A other \in PixelSet(b) : id <= other

\* C1: one shape per maximal 8-connected foreground component of more than 20
\* pixels and none for a smaller one; the blobs partition the foreground
\* (every foreground pixel in exactly one blob, exactly once) and each blob is
\* a maximal 8-connected component
C1_OneShapePerComponent ==
  Returned =>
    LET big == Big(Components)
    IN /\ \A k \in 1 .. Len(blobs) :
             /\ Cardinality(PixelSet(blobs[k])) = Len(blobs[k])
             /\ PixelSet(blobs[k]) = Component(PixelOf(blobs[k][1]))
       /\ \A j, k \in 1 .. Len(blobs) :
             j # k => PixelSet(blobs[j]) \cap PixelSet(blobs[k]) = {}
       /\ UNION { PixelSet(blobs[k]) : k \in 1 .. Len(blobs) } = Foreground
       /\ contours = SelectSeq(blobs, LAMBDA b : Len(b) > NoiseMax)
       /\ Len(LastResult.shapes) = Cardinality(big)
       /\ Len(LastResult.shapes) = Len(contours)
       /\ \A k \in 1 .. Len(contours) :
             /\ PixelSet(contours[k]) \in big
             /\ LastResult.shapes[k].boundingBox
                   = BoxOfPixels(PixelSet(contours[k]))

\* a result with one shape for an image of a large and a small component
C1_Witness ==
  /\ Returned
  /\ Len(LastResult.shapes) = 1
  /\ Cardinality(Components) = 2
  /\ \E c \in Components : Cardinality(c) <= NoiseMax

\* C2: every point of a shape's blob lies in [x, x+width] x [y, y+height]
C2_BoundingBoxContains ==
  Returned =>
    \A k \in 1 .. Len(LastResult.shapes) :
       LET box == LastResult.shapes[k].boundingBox
       IN \A i \in 1 .. Len(contours[k]) :
             LET p == contours[k][i]
             IN /\ box.x <= p.x /\ p.x <= box.x + box.width
                /\ box.y <= p.y /\ p.y <= box.y + box.height

\* a returned shape whose blob is wider than high, or higher than wide
C2_Witness ==
  /\ Returned
  /\ \E k \in 1 .. Len(LastResult.shapes) :
        LastResult.shapes[k].boundingBox.width
           # LastResult.shapes[k].boundingBox.height

\* C4: the shapes are in the order in which the row-major scan meets the first
\* pixel of their blobs, and the noise filter keeps that order
C4_DiscoveryOrder ==
  Returned =>
    /\ contours = SelectSeq(blobs, LAMBDA b : Len(b) > NoiseMax)
    /\ Len(LastResult.shapes) = Len(contours)
    /\ \A k \in 1 .. Len(contours) :
          LastResult.shapes[k].boundingBox = BoxOfPixels(PixelSet(contours[k]))
    /\ \A j, k \in 1 .. Len(contours) :
          (j < k) <=> (FirstPixel(contours[j]) < FirstPixel(contours[k]))

\* a result of two shapes
C4_Witness == Returned /\ Len(LastResult.shapes) = 2

\* the position of p in the sequence c (the points of a blob are distinct)
Pos(c, p) == CHOOSE k \in 1 .. Len(c) : c[k] = p

\* C10: for a blob that passed the noise filter, rdpSimplify with tolerance 3
\* returns at least 2 points, a subsequence of the blob in traversal order from
\* its first to its last point, and drops at least one point
C10_SimplifiedIsProperSubsequence ==
  Returned =>
    \A k \in 1 .. Len(contours) :
       LET c == contours[k]
           a == rdpSimplify(c, Rat(RdpTolerance, 1))
       IN /\ Len(c) > NoiseMax
          /\ Len(a) >= 2
          /\ a[1] = c[1] /\ a[Len(a)] = c[Len(c)]
          /\ \A i \in 1 .. Len(a) : a[i] \in Range(c)
          /\ \A i, j \in 1 .. Len(a) : i < j => Pos(c, a[i]) < Pos(c, a[j])
          /\ Len(a) < Len(c)

\* a blob whose simplification keeps a point between the two ends
C10_Witness ==
  /\ Returned
  /\ \E k \in 1 .. Len(contours) :
        Len(rdpSimplify(contours[k], Rat(RdpTolerance, 1))) > 2

\* C3: for every shape type and every blob of at least 1 point the confidence
\* is a number in [0, 1]
C3_ConfidenceInUnitInterval ==
  ~IsNaN(confidence) =>
    /\ confidence.den > 0
    /\ 0 <= confidence.num
    /\ confidence.num <= confidence.den

\* a confidence computed for a blob larger than the full-size count
C3_Witness == ~IsNaN(confidence) /\ contourLen > SizeFull

\* C5: one solid square on white paper yields exactly one shape, a rectangle
C5_SquareIsRectangle ==
  Returned =>
    /\ Len(LastResult.shapes) = 1
    /\ LastResult.shapes[1].type = "rectangle"

Boxes(r) == [k \in 1 .. Len(r.shapes) |-> r.shapes[k].boundingBox]

\* C6: an image and its luminance inversion yield the same number of shapes
\* with the same bounding boxes in the same order
C6_PolaritySymmetry ==
  Len(results) = 2 => Boxes(results[1]) = Boxes(results[2])

\* every pixel of the image of the current call has the same gray value
UniformInput ==
  /\ width >= 1 /\ height >= 1
  /\ LET g == Grayscale(data, width, height)
     IN \A i \in DOMAIN g : g[i] = g[0]

\* C7: on an image of one gray value (any value, any width and height >= 1)
\* no pixel becomes foreground and no blob is recorded, every step of
\* detectShapes up to its return can be taken, and the result has zero shapes
C7_UniformImageNoShapes ==
  UniformInput =>
    /\ pc \in {"scan", "fill", "analyze", "return"} => Foreground = {}
    /\ blobs = << >> /\ contours = << >>
    /\ pc # "idle" => ENABLED Next
    /\ Returned => LastResult.shapes = << >>

\* a result for a uniform image of more than NoiseMax pixels, not black
C7_Witness ==
  /\ Returned /\ UniformInput
  /\ width * height > NoiseMax
  /\ gray[0] > 0

\* a call has been made with an input that violates the preconditions
MalformedCall ==
  /\ pc # "idle" \/ results # << >>
  /\ Malformed(width, height, Cardinality(DOMAIN data))

\* C8: a call with a malformed input stops before any pixel is read and
\* returns no DetectionResult
C8_MalformedInputFails ==
  MalformedCall => (pc = "start" /\ results = << >>)

\* C9: rdpSimplify of at least two collinear points, for every tolerance > 0,
\* is exactly the first and the last point
C9_CollinearToEndpoints ==
  approx # << >> => approx = << points[1], points[Len(points)] >>

\* a call on a sequence that returns to its first point through another one
C9_Witness ==
  /\ approx # << >>
  /\ Len(points) >= 3
  /\ points[1] = points[Len(points)]
  /\ points[2] # points[1]

=============================================================================
